---- MODULE Spec2Model ----
(***************************************************************************)
(* A model of ckan-rescue: the two downloaders DataJsonDownloader          *)
(* (src/src/ckan_rescue/datajson.py) and DCATDownloader                     *)
(* (src/src/ckan_rescue/dcat.py), from the catalog to the worker pool.      *)
(*                                                                         *)
(* Representation of text.  A Python string is modelled as the non-empty   *)
(* sequence of its "/"-free pieces, i.e. as the value of s.split("/"):     *)
(*    ""                  is  <<"">>                                        *)
(*    "a.csv"             is  <<"a.csv">>                                   *)
(*    "http://h/a.csv"    is  <<"http:", "", "h", "a.csv">>                 *)
(*    "http://h/"         is  <<"http:", "", "h", "">>                      *)
(* The representation is one-to-one, so equality of strings is equality of *)
(* sequences.  A pathlib.Path is modelled as the sequence of its           *)
(* components.  A missing key of a JSON object, and a missing property of  *)
(* an RDF resource, is a key that is not in the DOMAIN of the function     *)
(* that models the object.                                                 *)
(***************************************************************************)
EXTENDS Integers, Sequences, FiniteSets, TLC

\* ------------------------------------------------------------------ bounds

\* max_threads ranges over -1 .. MaxThreads (the --threads option takes any int).
MaxThreads == 2
\* run() is executed at most MaxRuns times in sequence on the same output directory.
MaxRuns == 2
\* The DCAT catalogs made to exceed the cap have DatasetCap + OverCap datasets.
OverCap == 1

\* --------------------------------------------------------- program constants

\* dcat.py line 76: list(data.subjects(RDF.type, DCAT.Dataset))[:5]
DatasetCap == 5
\* dcat.py line 151: for _ in range(1)
DcatThreads == 1

\* ------------------------------------------------------------------ strings

EmptyStr == <<"">>

\* Python's truth value of a string: the empty string is false.
Truthy(s) == s # EmptyStr

\* dict.get(key, default)
Get(d, k, default) == IF k \in DOMAIN d THEN d[k] ELSE default

Last(s) == s[Len(s)]

\* urllib.parse.urlparse(u).path, for URLs without params, query or fragment:
\* with a scheme and "//netloc" the path is what follows the netloc (it starts
\* with "/" or is empty); without them the whole text is the path.
Schemes == {"http:"}
UrlPath(u) ==
    IF Len(u) >= 3 /\ u[1] \in Schemes /\ u[2] = ""
    THEN IF Len(u) = 3 THEN EmptyStr ELSE <<"">> \o SubSeq(u, 4, Len(u))
    ELSE u

\* os.path.basename(p): what follows the last "/" of p (all of p without one).
Basename(p) == <<Last(p)>>

\* _extract_file_from_url of both downloaders.
ExtractFileFromUrl(download_url) ==
    LET parsed_path == UrlPath(download_url)
        filename == Basename(parsed_path)
    IN  IF ~Truthy(filename) \/ filename = parsed_path
        THEN EmptyStr
        ELSE filename

\* f"{prefix}{s}" for a "/"-free prefix
Prepend(prefix, s) == <<prefix \o s[1]>> \o Tail(s)

\* DCATDownloader._get_identifier: resource.split("/")[-1]
GetIdentifier(resource) == <<Last(resource)>>

\* ------------------------------------------------------------------ paths

RECURSIVE Parts(_)
\* The components a string adds to a pathlib path: "" and "." pieces vanish.
Parts(s) ==
    IF s = <<>> THEN <<>>
    ELSE (IF Head(s) \in {"", "."} THEN <<>> ELSE <<Head(s)>>) \o Parts(Tail(s))

\* pathlib: path / s.  An absolute s replaces the path.
PathJoin(path, s) ==
    IF Len(s) > 1 /\ s[1] = ""
    THEN <<"/">> \o Parts(s)
    ELSE path \o Parts(s)

\* Path.parent and Path.name
Parent(path) == SubSeq(path, 1, Len(path) - 1)
Name(path) == <<Last(path)>>

\* Path("output") / netloc, for the one portal host of the model.
BasePath == <<"output", "h">>
DataPath == PathJoin(BasePath, <<"data">>)

\* ------------------------------------------------------------ file system

\* The directories mkdir(parents=True, exist_ok=True) leaves in place for path.
Prefixes(path) == { SubSeq(path, 1, n) : n \in 1..Len(path) }

\* Path.exists(): true of a file and of a directory alike.
Exists_Never(path, dirs, files) == FALSE

Exists(path, dirs, files) == path \in dirs \/ path \in DOMAIN files

\* open(file_path, "wb") succeeds when the parent is a directory and file_path
\* is not one; it creates the file, or truncates the one that is there.
CanOpen(path, dirs, files) ==
    /\ Parent(path) \in dirs
    /\ path \notin dirs

\* ------------------------------------------------------- prepare_download_tasks

\* datajson.py lines 61-65: the file name of a distribution.
JsonFileName_UrlFirst(distribution, download_url, dist_id) ==
    LET from_url == ExtractFileFromUrl(download_url)
        explicit == Get(distribution, "fileName", EmptyStr)
    IN  IF Truthy(from_url) THEN from_url
        ELSE IF Truthy(explicit) THEN explicit
        ELSE Prepend("dist_", dist_id)

JsonFileName(distribution, download_url, dist_id) ==
    LET explicit == Get(distribution, "fileName", EmptyStr)
        f1 == IF ~Truthy(explicit) THEN ExtractFileFromUrl(download_url) ELSE explicit
    IN  IF ~Truthy(f1) THEN Prepend("dist_", dist_id) ELSE f1

\* What one distribution of a data.json dataset asks for: no candidate when
\* it has no (or an empty) downloadURL (datajson.py lines 55-71).
JsonCandidate(dataset, distribution) ==
    LET dataset_id == Get(dataset, "identifier", <<"unknown_dataset">>)
        download_url == Get(distribution, "downloadURL", EmptyStr)
        dist_id == Get(distribution, "identifier", <<"unknown_distribution">>)
        filename == JsonFileName(distribution, download_url, dist_id)
        dist_dir == PathJoin(PathJoin(PathJoin(BasePath, <<"data">>), dataset_id), dist_id)
    IN  IF Truthy(download_url)
        THEN << [url |-> download_url, dist_dir |-> dist_dir,
                 file_path |-> PathJoin(dist_dir, filename), dist_id |-> dist_id] >>
        ELSE <<>>

\* DCATDownloader._get_download_url: downloadURL, else accessURL, else None
\* (None and the empty text are both false: EmptyStr stands for either).
GetDownloadUrl(distribution) ==
    LET download_url == Get(distribution, "downloadURL", EmptyStr)
    IN  IF Truthy(download_url) THEN download_url
        ELSE Get(distribution, "accessURL", EmptyStr)

\* What one distribution of a DCAT dataset asks for (dcat.py lines 78-89).
DcatCandidate(dataset, distribution) ==
    LET download_url == GetDownloadUrl(distribution)
        dist_id == GetIdentifier(distribution["uri"])
        dataset_id == GetIdentifier(dataset["uri"])
        dist_filename == ExtractFileFromUrl(download_url)
        dist_dir == PathJoin(PathJoin(DataPath, dataset_id), dist_id)
    IN  IF Truthy(download_url)
        THEN << [url |-> download_url, dist_dir |-> dist_dir,
                 file_path |-> PathJoin(dist_dir, dist_filename), dist_id |-> dist_id] >>
        ELSE <<>>

RECURSIVE JsonDistCandidates(_, _)
\* datajson.py line 56: the candidates of the distributions of one dataset.
JsonDistCandidates(dataset, dists) ==
    IF dists = <<>> THEN <<>>
    ELSE JsonCandidate(dataset, Head(dists)) \o JsonDistCandidates(dataset, Tail(dists))

RECURSIVE JsonCandidates(_)
\* datajson.py lines 54-56: the two nested loops.
JsonCandidates(datasets) ==
    IF datasets = <<>> THEN <<>>
    ELSE JsonDistCandidates(Head(datasets), Get(Head(datasets), "distribution", <<>>))
         \o JsonCandidates(Tail(datasets))

RECURSIVE DcatDistCandidates(_, _)
\* dcat.py line 77: the candidates of the distributions of one dataset.
DcatDistCandidates(dataset, dists) ==
    IF dists = <<>> THEN <<>>
    ELSE DcatCandidate(dataset, Head(dists)) \o DcatDistCandidates(dataset, Tail(dists))

RECURSIVE DcatCandidatesOf(_)
\* dcat.py lines 76-77: the two nested loops.
DcatCandidatesOf(datasets) ==
    IF datasets = <<>> THEN <<>>
    ELSE DcatDistCandidates(Head(datasets), Head(datasets)["distribution"])
         \o DcatCandidatesOf(Tail(datasets))

\* dcat.py line 76: the first DatasetCap Dataset subjects.
Capped_NoCap(datasets) == datasets

Capped(datasets) ==
    SubSeq(datasets, 1, IF Len(datasets) < DatasetCap THEN Len(datasets) ELSE DatasetCap)

Candidates(k, doc) ==
    IF k = "datajson"
    THEN JsonCandidates(Get(doc, "dataset", <<>>))
    ELSE DcatCandidatesOf(Capped(doc.datasets))

RECURSIVE Enqueue(_, _, _, _)
\* The body of the loops after the candidate is known: mkdir, the exists()
\* test, put (datajson.py lines 68-77, dcat.py lines 86-93).  The result is
\* the queue and the directories after the loop.
Enqueue(cands, q, dirs, files) ==
    IF cands = <<>> THEN [queue |-> q, dirs |-> dirs]
    ELSE LET c == Head(cands)
             made == dirs \cup Prefixes(c.dist_dir)
         IN  IF Exists(c.file_path, made, files)
             THEN Enqueue(Tail(cands), q, made, files)
             ELSE Enqueue(Tail(cands),
                          Append(q, <<c.url, c.file_path, c.dist_id>>), made, files)

PrepareDownloadTasks(k, doc, dirs, files) ==
    Enqueue(Candidates(k, doc), <<>>, dirs, files)

\* ------------------------------------------------------------------ catalogs

\* The documents the catalog URL may serve.  A data.json document is a
\* function from its keys.  A DCAT graph is [other |-> whether it holds
\* triples that are not about datasets, datasets |-> the Dataset subjects in
\* the order data.subjects yields them]; a DCAT dataset is [uri, distribution]
\* and a DCAT distribution a function from "uri" and the properties it has.

UrlA == <<"http:", "", "h", "a.csv">>
UrlDirA == <<"http:", "", "h", "x", "a.csv">>
UrlNoFile == <<"http:", "", "h", "">>
UrlRelative == <<"a.csv">>

JDist(id, url) == ("identifier" :> id) @@ ("downloadURL" :> url)
JDistNoId(url) == ("downloadURL" :> url)
JDistNamed(id, url, fn) == JDist(id, url) @@ ("fileName" :> fn)
JDistNoUrl(id) == ("identifier" :> id)

JDataset(id, dists) == ("identifier" :> id) @@ ("distribution" :> dists)
JDatasetNoId(dists) == ("distribution" :> dists)
JCatalog(datasets) == ("title" :> <<"portal">>) @@ ("dataset" :> datasets)

DistIds == <<"d1", "d2", "d3">>
DistId(j) == <<DistIds[j]>>

\* The shapes a data.json distribution takes; j is its place in the dataset.
JShapes ==
    {"plain", "noid", "noid_dir", "nourl", "emptyurl", "named", "emptyname",
     "nofile", "noid_nofile", "relative", "nested"}

JShape(s, j) ==
    CASE s = "plain" -> JDist(DistId(j), UrlA)
      [] s = "noid" -> JDistNoId(UrlA)
      [] s = "noid_dir" -> JDistNoId(UrlDirA)
      [] s = "nourl" -> JDistNoUrl(DistId(j))
      [] s = "emptyurl" -> JDist(DistId(j), EmptyStr)
      [] s = "named" -> JDistNamed(DistId(j), UrlA, <<"f.csv">>)
      [] s = "emptyname" -> JDistNamed(DistId(j), UrlA, EmptyStr)
      [] s = "nofile" -> JDist(DistId(j), UrlNoFile)
      [] s = "noid_nofile" -> JDistNoId(UrlNoFile)
      [] s = "relative" -> JDist(DistId(j), UrlRelative)
      [] s = "nested" -> JDistNamed(DistId(j), UrlA, <<"s", "f.csv">>)

\* Catalogs that vary the shape of two distributions of one dataset, and
\* catalogs of two datasets that give no identifier.
JShapesApart == {"plain", "noid", "nourl"}

JsonShapeCatalogs ==
    { JCatalog(<< JDataset(<<"A">>, << JShape(s1, 1), JShape(s2, 2) >>) >>) :
        s1 \in JShapes, s2 \in JShapes }
    \cup
    { JCatalog(<< JDatasetNoId(<< JShape(s1, 1) >>), JDatasetNoId(<< JShape(s2, 1) >>) >>) :
        s1 \in JShapesApart, s2 \in JShapesApart }

\* Catalogs on which every worker count is tried: the empty object, no
\* dataset key, no datasets, a dataset with no distribution key, three
\* distributions apart, two distributions on one path, and the catalog of
\* two datasets of which one distribution has no URL.
JsonPoolCatalogs ==
    { <<>>,
      ("title" :> <<"portal">>),
      JCatalog(<<>>),
      JCatalog(<< ("identifier" :> <<"A">>) >>),
      JCatalog(<< JDataset(<<"A">>, << JShape("plain", 1), JShape("plain", 2),
                                       JShape("plain", 3) >>) >>),
      JCatalog(<< JDatasetNoId(<< JShape("noid", 1), JShape("noid", 2) >>) >>),
      JCatalog(<< JDataset(<<"A">>, << JShape("plain", 1) >>),
                  JDataset(<<"B">>, << JShape("nourl", 1) >>) >>) }

JsonCatalogs == JsonPoolCatalogs \cup JsonShapeCatalogs

DatasetNames == <<"A", "B", "C", "D", "E", "F", "G", "H">>
DatasetUri(k) == <<"http:", "", "h", "dataset", DatasetNames[k]>>
\* The URI of distribution j of dataset k, as CKAN makes it.
DistUri(k, j) == DatasetUri(k) \o <<"resource", DistIds[j]>>
\* A URI of another portal that ends like DistUri(k, 1).
DistUriElsewhere(k) == <<"http:", "", "g", DistIds[1]>>

DDist(uri, props) == ("uri" :> uri) @@ props
DDataset(uri, dists) == [uri |-> uri, distribution |-> dists]
DGraph(datasets) == [other |-> TRUE, datasets |-> datasets]

\* The shapes a DCAT distribution takes: which of downloadURL and accessURL
\* it has, and what they are.
DShapes ==
    {"download", "access", "both", "nourl", "nofile", "emptydownload"}

DProps(s, uri) ==
    CASE s = "download" -> ("downloadURL" :> UrlA)
      [] s = "access" -> ("accessURL" :> uri)
      [] s = "both" -> ("downloadURL" :> UrlA) @@ ("accessURL" :> uri)
      [] s = "nourl" -> <<>>
      [] s = "nofile" -> ("downloadURL" :> UrlNoFile)
      [] s = "emptydownload" -> ("downloadURL" :> EmptyStr) @@ ("accessURL" :> UrlDirA)

DShape(s, uri) == DDist(uri, DProps(s, uri))

\* Graphs that vary the shape of two distributions of one dataset, graphs
\* of one dataset with two distribution URIs that end alike, and graphs of
\* two datasets.
DShapesAlike == {"download", "access"}
DShapesApart == {"download", "nofile", "nourl"}

DcatShapeCatalogs ==
    { DGraph(<< DDataset(DatasetUri(1), << DShape(s1, DistUri(1, 1)),
                                           DShape(s2, DistUri(1, 2)) >>) >>) :
        s1 \in DShapes, s2 \in DShapes }
    \cup
    { DGraph(<< DDataset(DatasetUri(1), << DShape(s1, DistUri(1, 1)),
                                           DShape(s2, DistUriElsewhere(1)) >>) >>) :
        s1 \in DShapesAlike, s2 \in DShapesAlike }
    \cup
    { DGraph(<< DDataset(DatasetUri(1), << DShape(s1, DistUri(1, 1)) >>),
                DDataset(DatasetUri(2), << DShape(s2, DistUri(2, 1)) >>) >>) :
        s1 \in DShapesApart, s2 \in DShapesApart }

\* A graph of n datasets of which the first, the DatasetCap-th and the later
\* ones have one distribution each.
DManyDatasets(n) ==
    DGraph([k \in 1..n |->
              DDataset(DatasetUri(k),
                       IF k = 1 \/ k >= DatasetCap
                       THEN << DShape("download", DistUri(k, 1)) >>
                       ELSE <<>>)])

\* Graphs on which every max_threads is tried: no triples, no datasets, three
\* distributions, and more datasets than the cap.
DcatPoolCatalogs ==
    { [other |-> FALSE, datasets |-> <<>>],
      DGraph(<<>>),
      DGraph(<< DDataset(DatasetUri(1), << DShape("download", DistUri(1, 1)),
                                           DShape("access", DistUri(1, 2)),
                                           DShape("both", DistUri(1, 3)) >>) >>),
      DManyDatasets(DatasetCap + OverCap) }

DcatCatalogs == DcatPoolCatalogs \cup DcatShapeCatalogs

CatalogsOf(k) == IF k = "datajson" THEN JsonCatalogs ELSE DcatCatalogs

PoolCatalogs == JsonPoolCatalogs \cup DcatPoolCatalogs

\* The max_threads tried with a catalog: all of -1 .. MaxThreads on the pool
\* catalogs (--threads takes any int), one thread on the catalogs that vary
\* shapes.
ThreadChoices(k, doc) ==
    IF doc \in (IF k = "datajson" THEN JsonPoolCatalogs ELSE DcatPoolCatalogs)
    THEN (-1)..MaxThreads
    ELSE {1}

\* ------------------------------------------------------------------ state

VARIABLES
    kind,             \* "datajson" (DataJsonDownloader) or "dcat" (DCATDownloader)
    max_threads,      \* self.max_threads
    catalog,          \* the document the catalog URL serves
    dirs,             \* the directories on disk
    files,            \* the files on disk: path -> content
    rpc,              \* where run() is
    result,           \* what run() returned
    data,             \* run()'s local data: <<>> for None, <<doc>> for a document
    outcome,          \* how the fetch of the catalog went in this run
    download_queue,   \* self.download_queue: the tuples not yet taken
    unfinished_tasks, \* the queue's count of put() minus task_done()
    failed_downloads, \* self.failed_downloads
    lock,             \* self.lock: 0 when free, else the worker holding it
    started,          \* how many worker threads run() has started
    wpc,              \* where each worker is
    wtask,            \* the tuple each worker holds
    wtid,             \* the position among the enqueued tasks of that tuple
    werr,             \* the exception each worker caught
    wctype,           \* the content type of the response each worker holds
    tasks,            \* the tuples this run put on the queue, in order
    status,           \* the state of each of them
    nfetch,           \* how many times urlopen was called for each of them
    cause,            \* the exception that ended each of them, "none" without one
    run_no,           \* which execution of run() this is
    prev              \* the disk and failed_downloads at the end of the runs before

vars == << kind, max_threads, catalog, dirs, files, rpc, result, data, outcome,
           download_queue, unfinished_tasks, failed_downloads, lock, started,
           wpc, wtask, wtid, werr, wctype, tasks, status, nfetch, cause,
           run_no, prev >>

Kinds == {"datajson", "dcat"}

\* The worker threads run() starts: range(self.max_threads) in datajson.py
\* line 130, range(1) in dcat.py line 151.
NumThreads_Configured(k, n) == IF n > 0 THEN n ELSE 0
NumThreads_AtLeastOne(k, n) == IF n > 1 THEN n ELSE 1

NumThreads(k, n) == IF k = "datajson" THEN (IF n > 0 THEN n ELSE 0) ELSE DcatThreads

Workers == 1 .. (IF MaxThreads > DcatThreads THEN MaxThreads ELSE DcatThreads)

NoTask == << EmptyStr, <<>>, EmptyStr >>

\* The contents of a file: the body served at a URL, or nothing yet.
Body(url) == url
NoBytes == <<>>

\* __init__ of a downloader: a new queue, list and lock.
NewDownloader ==
    /\ rpc = "start"
    /\ result = "none"
    /\ data = <<>>
    /\ outcome = "none"
    /\ download_queue = <<>>
    /\ unfinished_tasks = 0
    /\ failed_downloads = <<>>
    /\ lock = 0
    /\ started = 0
    /\ wpc = [w \in Workers |-> "idle"]
    /\ wtask = [w \in Workers |-> NoTask]
    /\ wtid = [w \in Workers |-> 0]
    /\ werr = [w \in Workers |-> "none"]
    /\ wctype = [w \in Workers |-> "none"]
    /\ tasks = <<>>
    /\ status = <<>>
    /\ nfetch = <<>>
    /\ cause = <<>>

Init ==
    /\ kind \in Kinds
    /\ catalog \in CatalogsOf(kind)
    /\ max_threads \in ThreadChoices(kind, catalog)
    /\ dirs = {}
    /\ files = <<>>
    /\ run_no = 1
    /\ prev = <<>>
    /\ NewDownloader

\* ------------------------------------------------------------------ run()

CatalogUrl(k) ==
    IF k = "datajson" THEN <<"http:", "", "h", "data.json">>
    ELSE <<"http:", "", "h", "catalog.rdf">>

\* Where the fetched catalog is saved: base_path / "data.json" (datajson.py
\* line 41), base_path / basename of the URL's path (dcat.py lines 38-39).
CatalogPath(k) ==
    IF k = "datajson" THEN PathJoin(BasePath, <<"data.json">>)
    ELSE PathJoin(BasePath, Basename(UrlPath(CatalogUrl(k))))

\* Python's "not doc": an empty JSON object, a graph of no triples.
Falsy(k, doc) ==
    IF k = "datajson" THEN DOMAIN doc = {}
    ELSE doc.datasets = <<>> /\ ~doc.other

\* "if not data" (datajson.py line 114, dcat.py line 134)
NotData(k, d) == d = <<>> \/ Falsy(k, d[1])

\* What run() returns when "not data".
FatalResult_True == "True"

FatalResult == "False"

FetchOutcomes == {"ok", "fetch_error", "parse_error"}

\* run() up to "if not data": create_directory_structure, then
\* fetch_datajson / fetch_dcatfile.  A data.json that cannot be fetched or
\* parsed gives None; a DCAT file that cannot be fetched gives None, one
\* that cannot be parsed makes Graph.parse raise out of run().
RunFetch ==
    /\ rpc = "start"
    /\ \E o \in FetchOutcomes :
         LET saved == o = "ok" \/ (kind = "dcat" /\ o = "parse_error")
             d == IF o = "ok" THEN <<catalog>> ELSE <<>>
             raised == kind = "dcat" /\ o = "parse_error"
         IN  /\ outcome' = o
             /\ dirs' = dirs \cup Prefixes(BasePath) \cup {DataPath}
             /\ files' = IF saved
                         THEN (CatalogPath(kind) :> Body(CatalogUrl(kind))) @@ files
                         ELSE files
             /\ data' = d
             /\ IF raised THEN rpc' = "done" /\ result' = "raised"
                ELSE IF NotData(kind, d) THEN rpc' = "done" /\ result' = FatalResult
                ELSE rpc' = "prepare" /\ result' = result
    /\ UNCHANGED << kind, max_threads, catalog, download_queue, unfinished_tasks,
                    failed_downloads, lock, started, wpc, wtask, wtid, werr, wctype,
                    tasks, status, nfetch, cause, run_no, prev >>

\* run() from prepare_download_tasks to the test of total_files
\* (datajson.py lines 119-126, dcat.py lines 139-146).
RunPrepare ==
    /\ rpc = "prepare"
    /\ LET r == PrepareDownloadTasks(kind, data[1], dirs, files)
           total_files == Len(r.queue)
       IN  /\ download_queue' = r.queue
           /\ unfinished_tasks' = total_files
           /\ dirs' = r.dirs
           /\ tasks' = r.queue
           /\ status' = [i \in 1..total_files |-> "Queued"]
           /\ nfetch' = [i \in 1..total_files |-> 0]
           /\ cause' = [i \in 1..total_files |-> "none"]
           /\ IF total_files = 0 THEN rpc' = "done" /\ result' = "True"
              ELSE /\ result' = result
                   /\ rpc' = IF NumThreads(kind, max_threads) = 0 THEN "join" ELSE "spawn"
    /\ UNCHANGED << kind, max_threads, catalog, files, data, outcome, failed_downloads, lock,
                    started, wpc, wtask, wtid, werr, wctype, run_no, prev >>

\* One turn of the loop that starts the threads (datajson.py lines 130-134,
\* dcat.py lines 151-155).
StartThread ==
    /\ rpc = "spawn"
    /\ started' = started + 1
    /\ wpc' = [wpc EXCEPT ![started + 1] = "get"]
    /\ rpc' = IF started + 1 = NumThreads(kind, max_threads) THEN "join" ELSE "spawn"
    /\ UNCHANGED << kind, max_threads, catalog, dirs, files, result, data, outcome,
                    download_queue, unfinished_tasks, failed_downloads, lock,
                    wtask, wtid, werr, wctype, tasks, status, nfetch, cause, run_no, prev >>

\* download_queue.join() returns when every put() has had its task_done().
JoinReturns_QueueEmpty == download_queue = <<>>
JoinReturns_Never == FALSE

JoinReturns == unfinished_tasks = 0

\* run() from join() to return True (datajson.py lines 137-144).
RunJoin ==
    /\ rpc = "join"
    /\ JoinReturns
    /\ rpc' = "done"
    /\ result' = "True"
    /\ UNCHANGED << kind, max_threads, catalog, dirs, files, data, outcome, download_queue,
                    unfinished_tasks, failed_downloads, lock, started, wpc, wtask,
                    wtid, werr, wctype, tasks, status, nfetch, cause, run_no, prev >>

\* run() is executed again, by a new downloader, on the same output
\* directory and the same catalog.
NewRun ==
    /\ rpc = "done"
    /\ run_no < MaxRuns
    /\ run_no' = run_no + 1
    /\ prev' = Append(prev, [files |-> files, dirs |-> dirs, failed |-> failed_downloads,
                             result |-> result, tasks |-> tasks, status |-> status,
                             cause |-> cause])
    /\ rpc' = "start"
    /\ result' = "none"
    /\ data' = <<>>
    /\ outcome' = "none"
    /\ download_queue' = <<>>
    /\ unfinished_tasks' = 0
    /\ failed_downloads' = <<>>
    /\ lock' = 0
    /\ started' = 0
    /\ wpc' = [w \in Workers |-> "idle"]
    /\ wtask' = [w \in Workers |-> NoTask]
    /\ wtid' = [w \in Workers |-> 0]
    /\ werr' = [w \in Workers |-> "none"]
    /\ wctype' = [w \in Workers |-> "none"]
    /\ tasks' = <<>>
    /\ status' = <<>>
    /\ nfetch' = <<>>
    /\ cause' = <<>>
    /\ UNCHANGED << kind, max_threads, catalog, dirs, files >>

\* ------------------------------------------------------------ download_worker

\* download_queue.get(timeout=10) hands over the oldest tuple.
WorkerGet(w) ==
    /\ wpc[w] = "get"
    /\ download_queue # <<>>
    /\ LET tid == Len(tasks) - Len(download_queue) + 1
       IN  /\ wtask' = [wtask EXCEPT ![w] = Head(download_queue)]
           /\ wtid' = [wtid EXCEPT ![w] = tid]
           /\ status' = [status EXCEPT ![tid] = "InFlight"]
    /\ download_queue' = Tail(download_queue)
    /\ wpc' = [wpc EXCEPT ![w] = "urlopen"]
    /\ UNCHANGED << kind, max_threads, catalog, dirs, files, rpc, result, data, outcome,
                    unfinished_tasks, failed_downloads, lock, started, werr, wctype,
                    tasks, nfetch, cause, run_no, prev >>

\* download_queue.get(timeout=10) raises queue.Empty after 10 s of an empty
\* queue: break.
WorkerTimeout(w) ==
    /\ wpc[w] = "get"
    /\ download_queue = <<>>
    /\ wpc' = [wpc EXCEPT ![w] = "exited"]
    /\ UNCHANGED << kind, max_threads, catalog, dirs, files, rpc, result, data, outcome,
                    download_queue, unfinished_tasks, failed_downloads, lock, started,
                    wtask, wtid, werr, wctype, tasks, status, nfetch, cause, run_no, prev >>

ContentTypes == {"text/html", "text/csv"}

\* An exception raised inside the inner try: the worker is in the handler.
Raise(w, e) ==
    /\ werr' = [werr EXCEPT ![w] = e]
    /\ status' = [status EXCEPT ![wtid[w]] = "Failed"]
    /\ cause' = [cause EXCEPT ![wtid[w]] = e]
    /\ wpc' = [wpc EXCEPT ![w] = "except"]

\* dcat.py lines 103-106: a response of content type text/html is logged
\* as a warning; no response is refused for its content type.
Refused_Html(ct) == ct = "text/html"

Refused(ct) == FALSE

\* urllib.request.urlopen(url): a response, or an exception.  The DCAT
\* worker reads the content type of the response (and only logs it).
UrlOpen(w) ==
    /\ wpc[w] = "urlopen"
    /\ nfetch' = [nfetch EXCEPT ![wtid[w]] = @ + 1]
    /\ \/ \E ct \in (IF kind = "dcat" THEN ContentTypes ELSE {"none"}) :
            IF Refused(ct)
            THEN /\ Raise(w, "ContentType")
                 /\ UNCHANGED wctype
            ELSE /\ wctype' = [wctype EXCEPT ![w] = ct]
                 /\ wpc' = [wpc EXCEPT ![w] = "open"]
                 /\ UNCHANGED << werr, status, cause >>
       \/ /\ Raise(w, "URLError")
          /\ UNCHANGED wctype
    /\ UNCHANGED << kind, max_threads, catalog, dirs, files, rpc, result, data, outcome,
                    download_queue, unfinished_tasks, failed_downloads, lock, started,
                    wtask, wtid, tasks, run_no, prev >>

\* open(file_path, "wb"): the file is created or truncated, or open raises.
OpenFile(w) ==
    /\ wpc[w] = "open"
    /\ IF CanOpen(wtask[w][2], dirs, files)
       THEN /\ files' = (wtask[w][2] :> NoBytes) @@ files
            /\ wpc' = [wpc EXCEPT ![w] = "write"]
            /\ UNCHANGED << werr, status, cause >>
       ELSE /\ Raise(w, "OSError")
            /\ UNCHANGED files
    /\ UNCHANGED << kind, max_threads, catalog, dirs, rpc, result, data, outcome,
                    download_queue, unfinished_tasks, failed_downloads, lock, started,
                    wtask, wtid, wctype, tasks, nfetch, run_no, prev >>

\* out_file.write(response.read()): the body is on disk and both "with"
\* blocks are left, or reading or writing raises and the file stays short.
WriteFile(w) ==
    /\ wpc[w] = "write"
    /\ \/ /\ files' = (wtask[w][2] :> Body(wtask[w][1])) @@ files
          /\ status' = [status EXCEPT ![wtid[w]] = "Completed"]
          /\ wpc' = [wpc EXCEPT ![w] = "task_done"]
          /\ UNCHANGED << werr, cause >>
       \/ /\ Raise(w, "IOError")
          /\ UNCHANGED files
    /\ UNCHANGED << kind, max_threads, catalog, dirs, rpc, result, data, outcome,
                    download_queue, unfinished_tasks, failed_downloads, lock, started,
                    wtask, wtid, wctype, tasks, nfetch, run_no, prev >>

\* with self.lock: the lock is taken.
AcquireLock(w) ==
    /\ wpc[w] = "except"
    /\ lock = 0
    /\ lock' = w
    /\ wpc' = [wpc EXCEPT ![w] = "append"]
    /\ UNCHANGED << kind, max_threads, catalog, dirs, files, rpc, result, data, outcome,
                    download_queue, unfinished_tasks, failed_downloads, started,
                    wtask, wtid, werr, wctype, tasks, status, nfetch, cause, run_no, prev >>

\* Where the worker goes after the handler: on to task_done().
AfterExcept_Break == "exited"
AfterExcept_Retry == "urlopen"
AfterExcept_Loop == "get"

AfterExcept == "task_done"

\* self.failed_downloads.append(f"{url} - {e}"), and the lock is released.
AppendFailure_NoRecord(w) ==
    /\ wpc[w] = "append"
    /\ lock' = 0
    /\ wpc' = [wpc EXCEPT ![w] = "task_done"]
    /\ UNCHANGED << kind, max_threads, catalog, dirs, files, rpc, result, data, outcome,
                    download_queue, unfinished_tasks, failed_downloads, started,
                    wtask, wtid, werr, wctype, tasks, status, nfetch, cause, run_no, prev >>

AppendFailure(w) ==
    /\ wpc[w] = "append"
    /\ failed_downloads' = Append(failed_downloads, [url |-> wtask[w][1], e |-> werr[w]])
    /\ lock' = 0
    /\ wpc' = [wpc EXCEPT ![w] = AfterExcept]
    /\ UNCHANGED << kind, max_threads, catalog, dirs, files, rpc, result, data, outcome,
                    download_queue, unfinished_tasks, started,
                    wtask, wtid, werr, wctype, tasks, status, nfetch, cause, run_no, prev >>

\* self.download_queue.task_done(), and back to the top of the loop.
TaskDone(w) ==
    /\ wpc[w] = "task_done"
    /\ unfinished_tasks' = unfinished_tasks - 1
    /\ wpc' = [wpc EXCEPT ![w] = "get"]
    /\ wtask' = [wtask EXCEPT ![w] = NoTask]
    /\ wtid' = [wtid EXCEPT ![w] = 0]
    /\ werr' = [werr EXCEPT ![w] = "none"]
    /\ wctype' = [wctype EXCEPT ![w] = "none"]
    /\ UNCHANGED << kind, max_threads, catalog, dirs, files, rpc, result, data, outcome,
                    download_queue, failed_downloads, lock, started,
                    tasks, status, nfetch, cause, run_no, prev >>

Worker(w) ==
    \/ WorkerGet(w)
    \/ WorkerTimeout(w)
    \/ UrlOpen(w)
    \/ OpenFile(w)
    \/ WriteFile(w)
    \/ AcquireLock(w)
    \/ AppendFailure(w)
    \/ TaskDone(w)

Next ==
    \/ RunFetch
    \/ RunPrepare
    \/ StartThread
    \/ RunJoin
    \/ NewRun
    \/ \E w \in Workers : Worker(w)

Spec == Init /\ [][Next]_vars

\* The scheduling of the threads once the queue is filled: run() goes on
\* through the loop that starts the threads and through join(), every
\* worker thread that was started goes on as long as it has a step to take,
\* and every urlopen, open and write returns or raises.
Fairness ==
    /\ WF_vars(StartThread)
    /\ WF_vars(RunJoin)
    /\ \A w \in Workers : WF_vars(Worker(w))

\* One execution of run(), from an empty output directory.
LiveNext ==
    \/ RunFetch
    \/ RunPrepare
    \/ StartThread
    \/ RunJoin
    \/ \E w \in Workers : Worker(w)

LiveSpec == Init /\ [][LiveNext]_vars /\ Fairness

TypeOK ==
    /\ rpc \in {"start", "prepare", "spawn", "join", "done"}
    /\ result \in {"none", "True", "False", "raised"}
    /\ unfinished_tasks \in 0..Len(tasks)
    /\ lock \in {0} \cup Workers

\* ------------------------------------------------------------------ claims

TaskIds == DOMAIN tasks
WithStatus(st) == { i \in TaskIds : status[i] = st }
Terminal(i) == status[i] \in {"Completed", "Failed"}
\* run() returned True after the workers were started: the return of line 144.
ReportedComplete == rpc = "done" /\ result = "True" /\ tasks # <<>>

\* C1: when run() reports the download phase complete (it returns True
\* after join()), every task that prepare_download_tasks enqueued is
\* Completed or Failed; none is Queued or InFlight.
C1_CompleteOnlyWhenAllTerminal ==
    ReportedComplete => \A i \in TaskIds : Terminal(i)

\* Two data.json workers were started, one task completed and another
\* failed, and run() has returned True.
C1_Witness ==
    /\ ReportedComplete
    /\ kind = "datajson"
    /\ started = 2
    /\ WithStatus("Completed") # {}
    /\ WithStatus("Failed") # {}

\* C2: no worker leaves the loop while tasks are on the queue (a worker
\* that caught an error goes on to the next task), and when run() is over
\* and exactly one task raised, every other task is Completed,
\* failed_downloads holds exactly one record, that record has the URL of the
\* failing task, and run() returned True.
C2_PartialFailureIsolation ==
    /\ \A w \in Workers : wpc[w] = "exited" => download_queue = <<>>
    /\ (rpc = "done" /\ Cardinality(WithStatus("Failed")) = 1) =>
          /\ \A i \in TaskIds : status[i] \in {"Completed", "Failed"}
          /\ Len(failed_downloads) = 1
          /\ \A i \in WithStatus("Failed") : failed_downloads[1].url = tasks[i][1]
          /\ result = "True"

\* One worker ran three tasks: the first raised, and the two after it
\* completed.
C2_Witness ==
    /\ rpc = "done"
    /\ kind = "datajson"
    /\ max_threads = 1
    /\ Len(tasks) = 3
    /\ status = <<"Failed", "Completed", "Completed">>
    /\ Len(failed_downloads) = 1

\* C3: run() returns False only when the catalog could not be fetched or
\* parsed; whenever the catalog was fetched and parsed (data is a document,
\* be it empty), run() returns True.
C3_FalseOnlyWhenCatalogUnavailable ==
    rpc = "done" =>
      /\ (result = "False" => outcome # "ok")
      /\ (outcome = "ok" => result = "True")

\* The files below the data/ directory.
DataFiles(f) == { path \in DOMAIN f : Len(path) > Len(DataPath) /\ SubSeq(path, 1, Len(DataPath)) = DataPath }
\* The disk as the run found it.
FilesBefore == IF run_no = 1 THEN <<>> ELSE prev[run_no - 1].files
DirsBefore == IF run_no = 1 THEN {} ELSE prev[run_no - 1].dirs

\* C4: once the fetch of the catalog has failed, run() is over with False,
\* prepare_download_tasks has not run (no task, no directory of a
\* distribution), the queue is empty, no worker was started, no URL of a
\* distribution was fetched, and the files under data/ are those of before
\* the run, unchanged.
C4_FatalShortCircuit ==
    outcome = "fetch_error" =>
      /\ rpc = "done"
      /\ result = "False"
      /\ tasks = <<>>
      /\ download_queue = <<>>
      /\ unfinished_tasks = 0
      /\ started = 0
      /\ \A w \in Workers : wpc[w] = "idle"
      /\ nfetch = <<>>
      /\ dirs = DirsBefore \cup Prefixes(BasePath) \cup {DataPath}
      /\ DataFiles(files) = DataFiles(FilesBefore)
      /\ \A path \in DataFiles(files) : files[path] = FilesBefore[path]

\* The fetch of a catalog with downloadable distributions failed, in a
\* second run on a directory that the first run had filled.
C4_Witness ==
    /\ outcome = "fetch_error"
    /\ run_no = 2
    /\ DataFiles(files) # {}
    /\ Candidates(kind, catalog) # <<>>

\* C5: the number of InFlight tasks never exceeds the configured worker
\* count max_threads.
C5_InFlightAtMostMaxThreads ==
    Cardinality(WithStatus("InFlight")) <= max_threads

\* C6: no two tasks on the queue of one run have the same destination path.
C6_DestinationsUnique ==
    \A i \in TaskIds : \A j \in TaskIds : i # j => tasks[i][2] # tasks[j][2]

\* C7: prepare_download_tasks enqueues no task whose destination exists
\* when it looks, and no worker opens for writing a path at which a file
\* exists.
C7_NoOverwrite ==
    [][ /\ rpc = "prepare" =>
             \A i \in DOMAIN tasks' : ~Exists(tasks'[i][2], dirs', files)
        /\ \A w \in Workers :
             (wpc[w] = "open" /\ wpc'[w] = "write") => wtask[w][2] \notin DOMAIN files
      ]_vars

\* C8 as stated: a run that follows a run that returned True enqueues no
\* task, fetches no distribution, leaves the files under data/ as they
\* were and ends with an empty failed_downloads.
C8_SecondRunDoesNothing ==
    (run_no >= 2 /\ prev[run_no - 1].result = "True") =>
      /\ tasks = <<>>
      /\ failed_downloads = <<>>
      /\ DataFiles(files) = DataFiles(FilesBefore)
      /\ \A path \in DataFiles(files) : files[path] = FilesBefore[path]

\* The run before this one returned True and recorded no failure.
PreviousRunClean ==
    /\ run_no >= 2
    /\ prev[run_no - 1].result = "True"
    /\ prev[run_no - 1].failed = <<>>

\* C8, amended: when the run before returned True with an empty
\* failed_downloads, this run enqueues no task, fetches no distribution,
\* leaves the files under data/ as they were and ends with an empty
\* failed_downloads.
C8_RerunAfterCleanRunDoesNothing ==
    PreviousRunClean =>
      /\ tasks = <<>>
      /\ download_queue = <<>>
      /\ nfetch = <<>>
      /\ started = 0
      /\ failed_downloads = <<>>
      /\ DataFiles(files) = DataFiles(FilesBefore)
      /\ \A path \in DataFiles(files) : files[path] = FilesBefore[path]

\* The second run is over with True, after a first run that downloaded two
\* files or more without a failure.
C8_Witness ==
    /\ PreviousRunClean
    /\ run_no = 2
    /\ Len(prev[1].tasks) >= 2
    /\ rpc = "done"
    /\ result = "True"

\* The datasets prepare_download_tasks is to read: all of a data.json, the
\* first five of a DCAT graph.
DatasetsRead(k, doc) ==
    IF k = "datajson" THEN Get(doc, "dataset", <<>>)
    ELSE SubSeq(doc.datasets, 1, IF Len(doc.datasets) < 5 THEN Len(doc.datasets) ELSE 5)

\* Each distribution of dists with its dataset.
PairsIn(dataset, dists) == [n \in DOMAIN dists |-> <<dataset, dists[n]>>]

RECURSIVE PairsOf(_)
PairsOf(datasets) ==
    IF datasets = <<>> THEN <<>>
    ELSE PairsIn(Head(datasets), Get(Head(datasets), "distribution", <<>>))
         \o PairsOf(Tail(datasets))

\* Every distribution to be read, with its dataset.
Pairs == PairsOf(DatasetsRead(kind, catalog))

\* The distribution has a source URL that is not empty.
HasUrl(k, distribution) ==
    \/ Truthy(Get(distribution, "downloadURL", EmptyStr))
    \/ k = "dcat" /\ Truthy(Get(distribution, "accessURL", EmptyStr))

\* The queue has just been filled: no worker is started yet.  The tuples in
\* tasks stay as they are until the run is over.
JustPrepared == tasks # <<>> /\ started = 0

\* prepare_download_tasks has run in this run, or run() ended before it on
\* an empty document.
AfterPrepare == outcome = "ok" /\ rpc # "prepare"

\* C9: from an empty output directory, prepare_download_tasks enqueues as
\* many tasks as there are distributions with a source URL.
C9_OneTaskPerUrl ==
    (run_no = 1 /\ AfterPrepare) =>
       Len(tasks) = Cardinality({ n \in DOMAIN Pairs : HasUrl(kind, Pairs[n][2]) })

CandidateOf(k, pair) ==
    IF k = "datajson" THEN JsonCandidate(pair[1], pair[2]) ELSE DcatCandidate(pair[1], pair[2])

TaskOf(c) == << c.url, c.file_path, c.dist_id >>

\* The pairs whose task was put on the queue in this run.
CreatedPairs ==
    { n \in DOMAIN Pairs :
        /\ CandidateOf(kind, Pairs[n]) # <<>>
        /\ \E i \in TaskIds : tasks[i] = TaskOf(CandidateOf(kind, Pairs[n])[1]) }

\* C10 as stated: the file name of the destination of every task is the
\* explicit filename if the catalog gives one, else the last path segment
\* of the URL if it has one, else dist_<id>; it is never empty.
C10_FileNamePrecedence ==
    JustPrepared => \A n \in CreatedPairs :
       LET c == CandidateOf(kind, Pairs[n])[1]
           explicit == Get(Pairs[n][2], "fileName", EmptyStr)
           segment == << Last(UrlPath(c.url)) >>
           name == Name(c.file_path)
       IN  /\ name # EmptyStr
           /\ name = IF Truthy(explicit) THEN explicit
                     ELSE IF Truthy(segment) THEN segment
                     ELSE Prepend("dist_", c.dist_id)

\* The name the amended claim resolves for a task.
ResolvedName(explicit, url, dist_id) ==
    LET path == UrlPath(url)
    IN  IF Truthy(explicit) THEN explicit
        ELSE IF Len(path) > 1 /\ Last(path) # "" THEN << Last(path) >>
        ELSE Prepend("dist_", dist_id)

\* C10, amended: the destination of every task is its distribution's
\* directory joined with the resolved name, which is the explicit fileName
\* if the catalog gives a non-empty one, else the text after the last "/"
\* of the URL's path if the path has a "/" and text after it, else
\* dist_<id>; the resolved name is never empty and, when it has no "/", it
\* is the file name of the destination.  A DCAT task always has a name of
\* the second kind.
C10_ResolvedNamePrecedence ==
    JustPrepared => \A n \in CreatedPairs :
       LET c == CandidateOf(kind, Pairs[n])[1]
           explicit == Get(Pairs[n][2], "fileName", EmptyStr)
           resolved == ResolvedName(explicit, c.url, c.dist_id)
       IN  /\ Truthy(resolved)
           /\ c.file_path = PathJoin(c.dist_dir, resolved)
           /\ Len(resolved) = 1 => Name(c.file_path) = resolved
           /\ kind = "dcat" => resolved = << Last(UrlPath(c.url)) >>

\* Two tasks were created: one named by the catalog's fileName for a URL
\* that has a name of its own, and one named dist_<id> for a URL without
\* a "/" in its path.
C10_Witness ==
    /\ JustPrepared
    /\ kind = "datajson"
    /\ Len(tasks) = 2
    /\ Name(tasks[1][2]) = <<"f.csv">>
    /\ tasks[1][1] = UrlA
    /\ Name(tasks[2][2]) = <<"dist_d2">>
    /\ tasks[2][1] = UrlRelative

\* A step inside one run: the tuples enqueued stay those of before.
SameRun == tasks' = tasks /\ run_no' = run_no

\* The tasks still on the queue: the last Len(download_queue) of them.
OnQueue == { i \in TaskIds : i > Len(tasks) - Len(download_queue) }
\* The workers that hold task i.
Holders(i) == { w \in Workers : wtid[w] = i }

\* C11: a task is Queued exactly while it is on the queue; at most one
\* worker ever holds it, and one does while it is InFlight; its URL is
\* opened at most once in the run; its state changes only from Queued to
\* InFlight (when a worker takes it off the queue) and from InFlight to
\* Completed or Failed, so a Completed or Failed task stays as it is; and
\* the queue only loses its head, nothing is put back.
C11_TaskStateMachine ==
    /\ [](\A i \in TaskIds :
            /\ status[i] = "Queued" <=> i \in OnQueue
            /\ Cardinality(Holders(i)) <= 1
            /\ status[i] = "InFlight" => Cardinality(Holders(i)) = 1
            /\ nfetch[i] <= 1)
    /\ [][ SameRun =>
            /\ \A i \in TaskIds :
                 \/ status'[i] = status[i]
                 \/ /\ status[i] = "Queued"
                    /\ status'[i] = "InFlight"
                    /\ \E w \in Workers : wtid[w] = 0 /\ wtid'[w] = i
                 \/ /\ status[i] = "InFlight"
                    /\ status'[i] \in {"Completed", "Failed"}
            /\ \A w \in Workers :
                 (wtid'[w] # wtid[w] /\ wtid'[w] # 0) =>
                     /\ status[wtid'[w]] = "Queued"
                     /\ \A v \in Workers : wtid[v] # wtid'[w]
            /\ \/ download_queue' = download_queue
               \/ download_queue # <<>> /\ download_queue' = Tail(download_queue)
         ]_vars

\* Two workers and three tasks: one task is Completed, one is Failed and
\* the third is InFlight.
C11_Witness ==
    /\ kind = "datajson"
    /\ started = 2
    /\ Len(tasks) = 3
    /\ WithStatus("Completed") # {}
    /\ WithStatus("Failed") # {}
    /\ WithStatus("InFlight") # {}
    /\ download_queue = <<>>

\* At least one worker is started for the tasks of this run.
HasWorkers == kind = "dcat" \/ max_threads >= 1

\* C12: once tasks are enqueued for a pool of one worker or more, then
\* (under fair scheduling, every fetch returning or raising) run() returns
\* True with the queue empty and every task Completed or Failed.
C12_PoolTerminates ==
    (tasks # <<>> /\ HasWorkers) ~>
        (/\ rpc = "done"
         /\ result = "True"
         /\ download_queue = <<>>
         /\ \A i \in TaskIds : Terminal(i))

\* A pool of two workers has drained a queue of three tasks and run() has
\* returned True; one worker has left its loop on the empty queue.
C12_Witness ==
    /\ kind = "datajson"
    /\ max_threads = 2
    /\ Len(tasks) = 3
    /\ rpc = "done"
    /\ result = "True"
    /\ download_queue = <<>>
    /\ \A i \in TaskIds : Terminal(i)
    /\ \E w \in Workers : wpc[w] = "exited"

\* The records of failed_downloads that are r, and the Failed tasks that
\* give the record r.
RecordsLike(r) == { n \in DOMAIN failed_downloads : failed_downloads[n] = r }
FailedLike(r) == { i \in WithStatus("Failed") : tasks[i][1] = r.url /\ cause[i] = r.e }

\* C13: in the life of one downloader failed_downloads only gets longer, by
\* one record at its end and by the worker that holds the lock; nothing is
\* appended once run() is over; and when run() is over, failed_downloads
\* has as many records as there are Failed tasks, each record as often as
\* there are Failed tasks with its URL and exception, so that no record is
\* left for a Completed task.
C13_FailureLedger ==
    /\ [][ run_no' = run_no =>
            /\ Len(failed_downloads') >= Len(failed_downloads)
            /\ SubSeq(failed_downloads', 1, Len(failed_downloads)) = failed_downloads
            /\ failed_downloads' # failed_downloads =>
                 /\ Len(failed_downloads') = Len(failed_downloads) + 1
                 /\ lock \in Workers
                 /\ wpc[lock] = "append"
                 /\ wpc'[lock] # "append"
                 /\ failed_downloads'[Len(failed_downloads')].url = wtask[lock][1]
                 /\ rpc # "done"
         ]_vars
    /\ [](rpc = "done" =>
            /\ Len(failed_downloads) = Cardinality(WithStatus("Failed"))
            /\ \A n \in DOMAIN failed_downloads :
                 Cardinality(RecordsLike(failed_downloads[n]))
                     = Cardinality(FailedLike(failed_downloads[n]))
            /\ \A i \in WithStatus("Failed") :
                 RecordsLike([url |-> tasks[i][1], e |-> cause[i]]) # {})

\* run() is over after two workers ran three tasks: two tasks failed, on
\* different exceptions, and one completed.
C13_Witness ==
    /\ rpc = "done"
    /\ kind = "datajson"
    /\ started = 2
    /\ Len(tasks) = 3
    /\ Len(failed_downloads) = 2
    /\ failed_downloads[1].e # failed_downloads[2].e
    /\ Cardinality(WithStatus("Completed")) = 1

\* The exceptions the calls of the inner try raise: urlopen, open, write.
CallErrors == {"URLError", "OSError", "IOError"}

\* C14: on the DCAT path no task fails for the content type of its
\* response; a worker that holds a text/html response is before open(), in
\* write(), in the handler of an error of open() or write(), or it has
\* written the body; and when it has left both "with" blocks without an
\* error, the destination holds the body served at the URL, the task is
\* Completed and failed_downloads has no record for it.
C14_HtmlIsAdvisory ==
    kind = "dcat" =>
      /\ \A i \in TaskIds : cause[i] \in {"none"} \cup CallErrors
      /\ \A w \in Workers : wctype[w] = "text/html" =>
           /\ werr[w] \in {"none", "OSError", "IOError"}
           /\ (wpc[w] = "task_done" /\ werr[w] = "none") =>
                /\ wtask[w][2] \in DOMAIN files
                /\ files[wtask[w][2]] = Body(wtask[w][1])
                /\ status[wtid[w]] = "Completed"
                /\ cause[wtid[w]] = "none"
                /\ Len(failed_downloads) = Cardinality(WithStatus("Failed"))

\* A DCAT worker has written the body of a text/html response to the
\* destination of its task, and nothing is recorded as failed.
C14_Witness ==
    /\ kind = "dcat"
    /\ \E w \in Workers :
         /\ wctype[w] = "text/html"
         /\ wpc[w] = "task_done"
         /\ werr[w] = "none"
         /\ status[wtid[w]] = "Completed"
         /\ files[wtask[w][2]] = Body(wtask[w][1])
    /\ failed_downloads = <<>>

\* The workers whose task is InFlight.
InFlightWorkers == { w \in Workers : wtid[w] # 0 /\ status[wtid[w]] = "InFlight" }

\* C15: no two workers are at once InFlight on tasks with the same
\* destination path.
C15_NoFileContention ==
    \A w1 \in InFlightWorkers : \A w2 \in InFlightWorkers :
        w1 # w2 => wtask[w1][2] # wtask[w2][2]

\* The tasks the distributions of the dataset at place k of a DCAT graph
\* ask for.
DcatTasksOf(k) ==
    LET dataset == catalog.datasets[k]
    IN  { TaskOf(DcatCandidate(dataset, dataset.distribution[j])[1]) :
            j \in { n \in DOMAIN dataset.distribution :
                      DcatCandidate(dataset, dataset.distribution[n]) # <<>> } }

\* The places of the first 5 Dataset subjects, and of the later ones.
FirstFive == { k \in DOMAIN catalog.datasets : k <= 5 }
Beyond == { k \in DOMAIN catalog.datasets : k > 5 }

\* C16: every task DCATDownloader.prepare_download_tasks enqueues is the
\* task of a distribution of one of the first 5 Dataset subjects, and no
\* task is enqueued that only a distribution of the 6th or a later dataset
\* asks for.
C16_DcatDatasetCap ==
    (kind = "dcat" /\ JustPrepared) =>
      /\ \A i \in TaskIds : \E k \in FirstFive : tasks[i] \in DcatTasksOf(k)
      /\ \A k \in Beyond : \A t \in DcatTasksOf(k) :
           (\A n \in FirstFive : t \notin DcatTasksOf(n)) =>
               \A i \in TaskIds : tasks[i] # t

\* A graph of more than 5 datasets: the tasks of the first and of the 5th
\* are enqueued, and a later dataset has a distribution that asks for a
\* task.
C16_Witness ==
    /\ kind = "dcat"
    /\ JustPrepared
    /\ Beyond # {}
    /\ \E k \in Beyond : DcatTasksOf(k) # {}
    /\ Len(tasks) = 2
    /\ tasks[1] \in DcatTasksOf(1)
    /\ tasks[2] \in DcatTasksOf(5)

C18_UnfinishedIsQueuedPlusInFlight ==
    /\ unfinished_tasks
         = Cardinality(WithStatus("Queued")) + Cardinality(WithStatus("InFlight"))
    /\ unfinished_tasks >= 0

\* The workers between the end of their task (the body is written, or an
\* exception was caught) and their call of task_done().
Pending == { w \in Workers : wpc[w] \in {"except", "append", "task_done"} }

\* C18, amended: the count of unfinished tasks goes down only by one, in
\* the call of task_done() by a worker whose task is Completed or Failed,
\* once for every task taken, and for a Failed task only when its record is
\* in failed_downloads; in every state the count is the number of Queued
\* tasks plus the number of InFlight tasks plus the number of tasks that
\* are Completed or Failed while their worker has not yet called
\* task_done(); it is never below zero, and it is zero when run() is over.
C18_JoinCounterAccounting ==
    /\ [](/\ unfinished_tasks
               = Cardinality(WithStatus("Queued")) + Cardinality(WithStatus("InFlight"))
                 + Cardinality(Pending)
          /\ unfinished_tasks >= 0
          /\ \A w \in Pending : Terminal(wtid[w])
          /\ \A w \in Workers :
               (wpc[w] = "task_done" /\ status[wtid[w]] = "Failed") =>
                   RecordsLike([url |-> wtask[w][1], e |-> cause[wtid[w]]]) # {}
          /\ rpc = "done" => unfinished_tasks = 0)
    /\ [][ (SameRun /\ unfinished_tasks' # unfinished_tasks) =>
             /\ unfinished_tasks' = unfinished_tasks - 1
             /\ \E w \in Workers :
                  /\ wpc[w] = "task_done"
                  /\ wpc'[w] = "get"
                  /\ Terminal(wtid[w])
                  /\ \A v \in Workers : wtid'[v] # wtid[w]
         ]_vars

\* Two workers stand before task_done(), one after writing a body and one
\* after recording a failure, while a third task waits on the queue: the
\* count is 3, and one task is Queued and none InFlight.
C18_Witness ==
    /\ unfinished_tasks = 3
    /\ Cardinality(WithStatus("Queued")) = 1
    /\ WithStatus("InFlight") = {}
    /\ \E w1 \in Workers : \E w2 \in Workers :
         /\ wpc[w1] = "task_done" /\ status[wtid[w1]] = "Completed"
         /\ wpc[w2] = "task_done" /\ status[wtid[w2]] = "Failed"

\* The tasks of the run before this one whose urlopen raised.
RaisedBefore ==
    IF run_no = 1 THEN {}
    ELSE { i \in DOMAIN prev[run_no - 1].tasks : prev[run_no - 1].cause[i] = "URLError" }

\* C19: a worker whose urlopen raised changes no file, from the handler to
\* its task_done(); the destination of a task whose urlopen raised does
\* not exist, during the run and after it; and the next run, when it gets
\* to prepare_download_tasks, enqueues the same task again.
C19_FailedOpenLeavesNoFile ==
    /\ [][ \A w \in Workers :
             ((werr[w] = "URLError" \/ werr'[w] = "URLError") /\ wpc'[w] # wpc[w]) =>
                 files' = files
         ]_vars
    /\ [](\A i \in TaskIds : cause[i] = "URLError" => tasks[i][2] \notin DOMAIN files)
    /\ []((run_no >= 2 /\ AfterPrepare) =>
            \A i \in RaisedBefore :
                /\ prev[run_no - 1].tasks[i][2] \notin DOMAIN prev[run_no - 1].files
                /\ \E j \in TaskIds : tasks[j] = prev[run_no - 1].tasks[i])

\* C20: in a data.json run with max_threads <= 0 and tasks enqueued, no
\* worker is ever started, every task stays Queued on the queue, and run()
\* stays in join() and returns nothing.
C20_NoWorkersBlocksRun ==
    (kind = "datajson" /\ max_threads <= 0 /\ tasks # <<>>) =>
      /\ rpc = "join"
      /\ result = "none"
      /\ started = 0
      /\ \A w \in Workers : wpc[w] = "idle"
      /\ download_queue = tasks
      /\ \A i \in TaskIds : status[i] = "Queued" /\ nfetch[i] = 0
      /\ unfinished_tasks = Len(tasks)
      /\ ~ENABLED Next

\* A DataJsonDownloader made with a negative max_threads is in join() with
\* three tasks on the queue.
C20_Witness ==
    /\ kind = "datajson"
    /\ max_threads < 0
    /\ Len(tasks) = 3
    /\ rpc = "join"
    /\ started = 0

====
